---------------------------- MODULE Spec2Model ----------------------------
(***************************************************************************)
(* Model of the chat assistant service (src/main.py and                    *)
(* src/custom_functions.py): the conversation store, the /start, /chat,    *)
(* /history and /clear handlers and the tool-call round of a /chat turn.   *)
(*                                                                         *)
(* Text values are sequences of symbols.  A symbol is one character; the   *)
(* fixed literals of the source (prompt, labels, JSON punctuation) are     *)
(* abbreviated to one symbol each.  Python's None is the value None below, *)
(* a one-element sequence whose element is no character.                   *)
(***************************************************************************)
EXTENDS Integers, Sequences, FiniteSets, TLC

\* ------------------------------------------------------------------ bounds
\* /start requests served, /chat turns accepted and tool-call requests returned by
\* the provider in first-round replies, counted together
MaxEvents == 4

\* the same events, counted where request handlers overlap
MaxOverlap == 3

\* ------------------------------------------------------------- value space
None == <<"None">>
EmptyStr == <<>>

Falsy(x) == x = None \/ x = EmptyStr

Workers == {"w1", "w2"}
W1 == "w1"

\* str(uuid.uuid4()): the n-th identifier handed out
Uuid(n) == <<"uuid", n>>

\* an identifier that is never handed out
UnknownId == Uuid(0)

UserTexts == {<<"A">>, <<"z">>}
ReplyTexts == {<<"o", "k">>}

\* the knowledge text of the configuration when one was loaded
KnowledgeText == <<"a", "b", "\n", "c", "d">>
Instructions == <<"<assistant_instructions>">>

\* ------------------------------------------------------------ text helpers
Whitespace == {" ", "\n", "\t"}

LowerChar(c) ==
    CASE c = "A" -> "a"
      [] c = "B" -> "b"
      [] c = "C" -> "c"
      [] c = "D" -> "d"
      [] c = "Z" -> "z"
      [] OTHER -> c

\* a comparison that keeps the case
SameCase(s) == s

\* str.lower()
Lower(s) == [i \in 1..Len(s) |-> LowerChar(s[i])]

\* str.split(sep) for a one-character separator: always at least one piece
RECURSIVE SplitOn(_, _)
SplitOn(s, sep) ==
    IF \A i \in 1..Len(s) : s[i] # sep
    THEN <<s>>
    ELSE LET k == CHOOSE i \in 1..Len(s) : s[i] = sep /\ \A j \in 1..(i-1) : s[j] # sep
         IN  <<SubSeq(s, 1, k-1)>> \o SplitOn(SubSeq(s, k+1, Len(s)), sep)

\* str.split(): runs of whitespace separate, no empty pieces
RECURSIVE SplitWords(_)
SplitWords(s) ==
    IF s = <<>> THEN <<>>
    ELSE IF s[1] \in Whitespace THEN SplitWords(Tail(s))
    ELSE LET ends == {i \in 1..Len(s) : s[i] \in Whitespace}
             n == IF ends = {} THEN Len(s)
                  ELSE (CHOOSE i \in ends : \A j \in ends : i <= j) - 1
         IN  <<SubSeq(s, 1, n)>> \o SplitWords(SubSeq(s, n+1, Len(s)))

\* word in line
Contains(line, word) ==
    \E i \in 0..(Len(line) - Len(word)) : SubSeq(line, i+1, i+Len(word)) = word

\* '\n'.join(parts)
RECURSIVE JoinLines(_)
JoinLines(parts) ==
    IF parts = <<>> THEN <<>>
    ELSE IF Len(parts) = 1 THEN parts[1]
    ELSE parts[1] \o <<"\n">> \o JoinLines(Tail(parts))

\* relevant_lines[:5]
RelevantLimit == 5

search_knowledge_base(query, knowledge_content) ==
    IF Falsy(knowledge_content) THEN EmptyStr
    ELSE LET query_words == SplitWords(Lower(query))
             lines == SplitOn(knowledge_content, "\n")
             Relevant(line) ==
                 \E k \in 1..Len(query_words) : Contains(Lower(line), query_words[k])
             relevant_lines == SelectSeq(lines, Relevant)
             n == IF Len(relevant_lines) < RelevantLimit
                  THEN Len(relevant_lines) ELSE RelevantLimit
         IN  JoinLines(SubSeq(relevant_lines, 1, n))


\* ------------------------------------------------------------ configuration
\* create_assistant: the configuration built at start, with or without knowledge
create_assistant(knowledge_content) ==
    [model |-> "llama-3.3-70b-versatile",
     system_prompt |->
        IF Falsy(knowledge_content) THEN Instructions
        ELSE Instructions \o <<"\n\nKNOWLEDGE BASE:\n">> \o knowledge_content
                          \o <<"\n\nUse the above knowledge base ...">>,
     tools |-> <<"create_lead">>,
     knowledge_base |-> IF Falsy(knowledge_content) THEN None ELSE knowledge_content]

Configurations == {create_assistant(EmptyStr), create_assistant(KnowledgeText)}

\* --------------------------------------------------------------------- JSON
ArgsFull == <<"{\"name\": \"J\", \"company_name\": \"C\", \"phone\": \"1\", \"email\": \"e\"}">>
ArgsPartial == <<"{\"name\": \"J\"}">>
ArgsList == <<"[1]">>
ArgsBroken == <<"{\"name\": ">>

ArgTexts == {ArgsFull, ArgsPartial, ArgsList, ArgsBroken}

\* json.loads on the argument texts above
json_loads(text) ==
    CASE text = ArgsFull ->
           [ok |-> TRUE, isdict |-> TRUE,
            value |-> [name |-> <<"J">>, company_name |-> <<"C">>,
                       phone |-> <<"1">>, email |-> <<"e">>]]
      [] text = ArgsPartial ->
           [ok |-> TRUE, isdict |-> TRUE, value |-> [name |-> <<"J">>]]
      [] text = ArgsList ->
           [ok |-> TRUE, isdict |-> FALSE, value |-> <<1>>]
      [] OTHER -> [ok |-> FALSE]

\* dict.get(key, default)
dict_get(d, key, default) == IF key \in DOMAIN d THEN d[key] ELSE default

\* json.dumps on the objects a tool result can be
json_dumps(output) ==
    IF "error" \in DOMAIN output
    THEN <<"{\"error\": \"">> \o output.error \o <<"\"}">>
    ELSE <<"{\"records\": [{\"fields\": {\"Name\": \"">> \o output.records.Name
         \o <<"\", \"Phone\": \"">> \o output.records.Phone
         \o <<"\", \"Email\": \"">> \o output.records.Email
         \o <<"\", \"CompanyName\": \"">> \o output.records.CompanyName
         \o <<"\"}}]}">>

error_output == [error |-> <<"Invalid function arguments">>]

\* ---------------------------------------------------------------- Lead Sink
\* how one request to the record-keeping service ends: status 200, another status,
\* or requests.post raising (no connection, timeout)
SinkOutcomes == {"ok", "non200", "raise"}

NoException == "none"

\* create_lead: the fields posted, and what the call returns or raises
create_lead(name, company_name, phone, email, outcome) ==
    LET fields == [Name |-> name, Phone |-> phone, Email |-> email,
                   CompanyName |-> company_name]
    IN  CASE outcome = "ok" ->
               [posted |-> fields, raised |-> NoException, value |-> [records |-> fields]]
          [] outcome = "non200" ->
               [posted |-> fields, raised |-> NoException,
                value |-> [error |-> <<"Failed to create lead: ">> \o <<"<response.text>">>]]
          [] OTHER ->
               [posted |-> fields, raised |-> "Exception"]

\* ----------------------------------------------------------------- messages
UserMessage(content) == [role |-> "user", content |-> content]
SystemMessage(content) == [role |-> "system", content |-> content]
AssistantMessage(content) == [role |-> "assistant", content |-> content]
ToolMessage(content, tool_call_id) ==
    [role |-> "tool", content |-> content, tool_call_id |-> tool_call_id]

\* x or ""
OrEmpty(x) == IF Falsy(x) THEN EmptyStr ELSE x

\* a list comprehension that stops after the first request
AssistantFirstToolCallMessage(assistant_message) ==
    [role |-> "assistant",
     content |-> OrEmpty(assistant_message.content),
     tool_calls |->
        <<[id |-> assistant_message.tool_calls[1].id,
           type |-> assistant_message.tool_calls[1].type,
           function |->
              [name |-> assistant_message.tool_calls[1].function.name,
               arguments |-> assistant_message.tool_calls[1].function.arguments]]>>]

\* the assistant message that carries the reply's tool-call requests
AssistantToolCallMessage(assistant_message) ==
    [role |-> "assistant",
     content |-> OrEmpty(assistant_message.content),
     tool_calls |->
        [i \in 1..Len(assistant_message.tool_calls) |->
            [id |-> assistant_message.tool_calls[i].id,
             type |-> assistant_message.tool_calls[i].type,
             function |->
                [name |-> assistant_message.tool_calls[i].function.name,
                 arguments |-> assistant_message.tool_calls[i].function.arguments]]]]

\* process_message_with_assistant: the message list of the first completion call
process_message_with_assistant(message, conversation_history, config) ==
    LET messages == <<SystemMessage(config.system_prompt)>>
                    \o conversation_history
                    \o <<UserMessage(message)>>
        relevant_info ==
            IF Falsy(config.knowledge_base) THEN EmptyStr
            ELSE search_knowledge_base(message, config.knowledge_base)
    IN  IF Falsy(relevant_info) THEN messages
        ELSE [messages EXCEPT ![Len(messages)].content =
                message \o <<"\n\nRelevant information from knowledge base:\n">>
                        \o relevant_info]

IsNotSystem(msg) == msg.role # "system"

\* a second call that leaves the tool results out
FinalMessagesWithoutResults(conversation, config) ==
    LET NotToolOrSystem(msg) == msg.role \notin {"system", "tool"}
    IN  <<SystemMessage(config.system_prompt)>> \o SelectSeq(conversation, NotToolOrSystem)

\* the message list of the second completion call
FinalMessages(conversation, config) ==
    <<SystemMessage(config.system_prompt)>> \o SelectSeq(conversation, IsNotSystem)

\* a filter on the role alone
ShownByRole(msg) == msg.role \in {"user", "assistant"}

ShownInHistory(msg) ==
    msg.role \in {"user", "assistant"} /\ "tool_calls" \notin DOMAIN msg

\* get_history: the entries the /history route returns
RECURSIVE HistoryEntries(_)
HistoryEntries(conversation) ==
    IF conversation = <<>> THEN <<>>
    ELSE LET msg == Head(conversation)
         IN  (IF ShownInHistory(msg)
              THEN <<[role |-> msg.role, content |-> msg.content]>>
              ELSE <<>>)
             \o HistoryEntries(Tail(conversation))

\* -------------------------------------------------------- Completion Provider
\* get_groq_response returns None when the provider call raised
Failure == [failed |-> TRUE]

CallId(n) == <<"call", n>>

ToolCallShapes ==
    {[name |-> "create_lead", arguments |-> a] : a \in ArgTexts}
    \cup {[name |-> "lookup_order", arguments |-> ArgsFull]}

ToolCall(shape, n) ==
    [id |-> CallId(n), type |-> "function",
     function |-> [name |-> shape.name, arguments |-> shape.arguments]]

\* the tool-call lists of at most `most` requests a reply can carry; the provider
\* numbers its requests onwards from `first`
ToolCallLists(first, most) ==
    UNION {{[i \in 1..n |-> ToolCall(shapes[i], first + i)] :
                shapes \in [1..n -> ToolCallShapes]} :
           n \in 1..most}

PlainReplies == {[failed |-> FALSE, content |-> c, tool_calls |-> <<>>] : c \in ReplyTexts}

ToolCallReplies(first, most) ==
    {[failed |-> FALSE, content |-> c, tool_calls |-> tcs] :
        c \in {None} \cup ReplyTexts, tcs \in ToolCallLists(first, most)}

\* a second-round reply may ask for tools again; its requests are never looked at
SecondRoundReplies ==
    PlainReplies
    \cup {[failed |-> FALSE, content |-> None,
           tool_calls |-> <<ToolCall([name |-> "create_lead", arguments |-> ArgsFull], 0)>>]}

\* ------------------------------------------------------------ retriever inputs
\* the longest query and the most lines of knowledge text tried
MaxQueryLen == 2
MaxLines == 6

QueryChars == {"A", "c", " "}
Queries == UNION {[1..n -> QueryChars] : n \in 0..MaxQueryLen}

KnowledgeLines == {<<>>, <<"a", "B">>, <<"c", "d">>}
LineLists == UNION {[1..n -> KnowledgeLines] : n \in 0..MaxLines}

\* ---------------------------------------------------------------------- state
VARIABLES
    conversations,      \* main.py conversations: thread id -> list of messages
    assistant_config,   \* main.py assistant_config
    pc,                 \* per request handler: where its /chat turn stands
    thread_id,          \* chat(): thread_id
    user_input,         \* chat(): user_input
    tool_calls,         \* chat(): assistant_message.tool_calls
    idx,                \* chat(): position of the for loop over tool_calls
    resp,               \* per request handler: the response it returned last
    provider_log,       \* per request: the message lists sent to the provider
    sink_log,           \* per request: the records posted to the Lead Sink
    turn_log,           \* per thread: the turns since it was created or cleared
    before,             \* per request: the thread's history when its turn began
    events,             \* the events counted against MaxEvents so far
    search              \* a call of search_knowledge_base: its arguments and result

vars == <<conversations, assistant_config, pc, thread_id, user_input, tool_calls, idx,
          resp, provider_log, sink_log, turn_log, before, events, search>>

locals == <<thread_id, user_input, tool_calls, idx>>

\* no call of the retriever on its own is under way
NoSearch == [called |-> FALSE]

\* a response, with the thread id of the request it answers
NoResponse == [route |-> "none", thread_id |-> None, status |-> 0, body |-> [pending |-> TRUE]]

Response(route, tid, status, body) ==
    [route |-> route, thread_id |-> tid, status |-> status, body |-> body]

Init ==
    /\ conversations = <<>>
    /\ assistant_config \in Configurations
    /\ pc = [w \in Workers |-> "idle"]
    /\ thread_id = [w \in Workers |-> None]
    /\ user_input = [w \in Workers |-> EmptyStr]
    /\ tool_calls = [w \in Workers |-> <<>>]
    /\ idx = [w \in Workers |-> 0]
    /\ resp = [w \in Workers |-> NoResponse]
    /\ provider_log = [w \in Workers |-> <<>>]
    /\ sink_log = [w \in Workers |-> <<>>]
    /\ turn_log = <<>>
    /\ before = [w \in Workers |-> <<>>]
    /\ events = 0
    /\ search = NoSearch

\* ----------------------------------------------------------- store operations
Known(tid) == tid \in DOMAIN conversations

\* conversations[tid] = messages
StoreSet(store, tid, messages) ==
    [t \in DOMAIN store \cup {tid} |-> IF t = tid THEN messages ELSE store[t]]

\* a sharing store: every thread id is bound to one and the same list
StoreAppendAll(store, tid, msg) == [t \in DOMAIN store |-> Append(store[t], msg)]

\* conversations[tid].append(msg)
StoreAppend(store, tid, msg) == [store EXCEPT ![tid] = Append(@, msg)]

\* a handler takes a new request: nothing is logged for it yet
Accept(w, history) ==
    /\ pc[w] = "idle"
    /\ sink_log' = [sink_log EXCEPT ![w] = <<>>]
    /\ before' = [before EXCEPT ![w] = history]

\* the request makes no completion call
NoProviderCall(w) == provider_log' = [provider_log EXCEPT ![w] = <<>>]

\* the handler returns: its response is recorded and its frame is gone
Return(w, route, tid, status, body) ==
    /\ resp' = [resp EXCEPT ![w] = Response(route, tid, status, body)]
    /\ pc' = [pc EXCEPT ![w] = "idle"]
    /\ thread_id' = [thread_id EXCEPT ![w] = None]
    /\ user_input' = [user_input EXCEPT ![w] = EmptyStr]
    /\ tool_calls' = [tool_calls EXCEPT ![w] = <<>>]
    /\ idx' = [idx EXCEPT ![w] = 0]

\* ghost: the turn of handler w on its thread ends with `outcome`
EndTurn(w, outcome, reply) ==
    turn_log' = [turn_log EXCEPT ![thread_id[w]] =
                    Append(@, [message |-> user_input[w], outcome |-> outcome,
                               reply |-> reply])]

\* ------------------------------------------------------------------- /start
start_conversation(w) ==
    /\ events < MaxEvents
    /\ LET tid == Uuid(Cardinality(DOMAIN conversations) + 1)
       IN  /\ Accept(w, <<>>)
           /\ NoProviderCall(w)
           /\ conversations' = StoreSet(conversations, tid, <<>>)
           /\ turn_log' = StoreSet(turn_log, tid, <<>>)
           /\ Return(w, "/start", None, 200, [thread_id |-> tid])
    /\ events' = events + 1
    /\ UNCHANGED <<assistant_config, search>>

\* -------------------------------------------------------------------- /chat
\* a refusal that leaves an entry behind for the unknown id (setdefault)
chat_rejected_setdefault(w, tid) ==
    /\ Falsy(tid) \/ ~Known(tid)
    /\ Accept(w, <<>>)
    /\ NoProviderCall(w)
    /\ Return(w, "/chat", tid, 400,
              [error |-> IF Falsy(tid) THEN "Missing thread_id" ELSE "Invalid thread_id"])
    /\ conversations' = IF Falsy(tid) THEN conversations
                        ELSE StoreSet(conversations, tid, <<>>)
    /\ turn_log' = IF Falsy(tid) THEN turn_log ELSE StoreSet(turn_log, tid, <<>>)
    /\ UNCHANGED <<assistant_config, search, events>>

\* lines 45-51: the request is refused before anything is touched
chat_rejected(w, tid) ==
    /\ Falsy(tid) \/ ~Known(tid)
    /\ Accept(w, <<>>)
    /\ NoProviderCall(w)
    /\ Return(w, "/chat", tid, 400,
              [error |-> IF Falsy(tid) THEN "Missing thread_id" ELSE "Invalid thread_id"])
    /\ UNCHANGED <<conversations, assistant_config, search, turn_log, events>>

\* a turn that waits until no other turn is under way on the thread (a lock per
\* thread id)
chat_begin_exclusive(w, tid, text) ==
    /\ ~Falsy(tid) /\ Known(tid)
    /\ \A v \in Workers \ {w} : pc[v] = "idle" \/ thread_id[v] # tid
    /\ events < MaxEvents
    /\ Accept(w, conversations[tid])
    /\ thread_id' = [thread_id EXCEPT ![w] = tid]
    /\ user_input' = [user_input EXCEPT ![w] = text]
    /\ tool_calls' = [tool_calls EXCEPT ![w] = <<>>]
    /\ idx' = [idx EXCEPT ![w] = 0]
    /\ LET store == StoreAppend(conversations, tid, UserMessage(text))
       IN  /\ conversations' = store
           /\ provider_log' = [provider_log EXCEPT ![w] =
                <<process_message_with_assistant(text, store[tid], assistant_config)>>]
    /\ pc' = [pc EXCEPT ![w] = "first_completion"]
    /\ resp' = [resp EXCEPT ![w] = NoResponse]
    /\ events' = events + 1
    /\ UNCHANGED <<assistant_config, search, turn_log>>

\* a turn whose outbound user message is the stored one (messages[-1] aliases the
\* last entry of the history), so that the augmented text is stored too
chat_begin_aliased(w, tid, text) ==
    /\ ~Falsy(tid) /\ Known(tid)
    /\ events < MaxEvents
    /\ Accept(w, conversations[tid])
    /\ thread_id' = [thread_id EXCEPT ![w] = tid]
    /\ user_input' = [user_input EXCEPT ![w] = text]
    /\ tool_calls' = [tool_calls EXCEPT ![w] = <<>>]
    /\ idx' = [idx EXCEPT ![w] = 0]
    /\ LET store == StoreAppend(conversations, tid, UserMessage(text))
           messages == process_message_with_assistant(text, store[tid], assistant_config)
       IN  /\ conversations' = [store EXCEPT ![tid][Len(store[tid])] = messages[Len(messages)]]
           /\ provider_log' = [provider_log EXCEPT ![w] = <<messages>>]
    /\ pc' = [pc EXCEPT ![w] = "first_completion"]
    /\ resp' = [resp EXCEPT ![w] = NoResponse]
    /\ events' = events + 1
    /\ UNCHANGED <<assistant_config, search, turn_log>>

\* lines 56-64 and process_message_with_assistant up to the provider call
chat_begin(w, tid, text) ==
    /\ ~Falsy(tid) /\ Known(tid)
    /\ events < MaxEvents
    /\ Accept(w, conversations[tid])
    /\ thread_id' = [thread_id EXCEPT ![w] = tid]
    /\ user_input' = [user_input EXCEPT ![w] = text]
    /\ tool_calls' = [tool_calls EXCEPT ![w] = <<>>]
    /\ idx' = [idx EXCEPT ![w] = 0]
    /\ LET store == StoreAppend(conversations, tid, UserMessage(text))
       IN  /\ conversations' = store
           /\ provider_log' = [provider_log EXCEPT ![w] =
                <<process_message_with_assistant(text, store[tid], assistant_config)>>]
    /\ pc' = [pc EXCEPT ![w] = "first_completion"]
    /\ resp' = [resp EXCEPT ![w] = NoResponse]
    /\ events' = events + 1
    /\ UNCHANGED <<assistant_config, search, turn_log>>

\* a failed first call that is tried once more before giving up
first_completion_retried(w) ==
    /\ pc[w] = "first_completion"
    /\ IF Len(provider_log[w]) < 2
       THEN /\ provider_log' = [provider_log EXCEPT ![w] = Append(@, @[1])]
            /\ UNCHANGED <<pc, locals, resp, turn_log>>
       ELSE /\ Return(w, "/chat", thread_id[w], 500,
                      [error |-> "Failed to get response from assistant"])
            /\ EndTurn(w, "first_call_failed", None)
            /\ UNCHANGED provider_log
    /\ UNCHANGED <<before, conversations, assistant_config, search, sink_log, events>>

\* lines 66-67: the first provider call failed
first_completion_failed(w) ==
    /\ pc[w] = "first_completion"
    /\ Return(w, "/chat", thread_id[w], 500, [error |-> "Failed to get response from assistant"])
    /\ EndTurn(w, "first_call_failed", None)
    /\ UNCHANGED <<before, conversations, assistant_config, search, provider_log, sink_log, events>>

\* a reply returned but not stored
direct_reply_unsaved(w) ==
    /\ pc[w] = "first_completion"
    /\ \E reply \in PlainReplies :
          /\ Return(w, "/chat", thread_id[w], 200, [response |-> reply.content])
          /\ EndTurn(w, "direct", reply.content)
    /\ UNCHANGED <<before, conversations, assistant_config, search, provider_log, sink_log, events>>

\* lines 151-157: a reply without tool calls
direct_reply(w) ==
    /\ pc[w] = "first_completion"
    /\ \E reply \in PlainReplies :
          /\ conversations' = StoreAppend(conversations, thread_id[w],
                                          AssistantMessage(reply.content))
          /\ Return(w, "/chat", thread_id[w], 200, [response |-> reply.content])
          /\ EndTurn(w, "direct", reply.content)
    /\ UNCHANGED <<before, assistant_config, search, provider_log, sink_log, events>>

\* lines 72-90: a reply with tool calls
tool_calls_pending(w) ==
    /\ pc[w] = "first_completion"
    /\ \E reply \in ToolCallReplies(events, MaxEvents - events) :
          /\ conversations' = StoreAppend(conversations, thread_id[w],
                                          AssistantToolCallMessage(reply))
          /\ tool_calls' = [tool_calls EXCEPT ![w] = reply.tool_calls]
          /\ events' = events + Len(reply.tool_calls)
    /\ idx' = [idx EXCEPT ![w] = 1]
    /\ pc' = [pc EXCEPT ![w] = "resolving_tools"]
    /\ UNCHANGED <<before, assistant_config, search, thread_id, user_input, resp, provider_log, sink_log,
                   turn_log>>

Resolving(w) == pc[w] = "resolving_tools" /\ idx[w] <= Len(tool_calls[w])

CurrentCall(w) == tool_calls[w][idx[w]]

NextCall(w) == idx' = [idx EXCEPT ![w] = @ + 1]

\* lines 159-161: whatever was raised inside the try block
internal_error(w) ==
    /\ Return(w, "/chat", thread_id[w], 500, [error |-> "Internal server error"])
    /\ EndTurn(w, "internal_error", None)

\* line 92, no else branch: a tool that is not create_lead
other_tool(w) ==
    /\ Resolving(w)
    /\ CurrentCall(w).function.name # "create_lead"
    /\ NextCall(w)
    /\ UNCHANGED <<before, conversations, assistant_config, search, pc, thread_id, user_input, tool_calls,
                   resp, provider_log, sink_log, turn_log, events>>

\* a parse error that is left to the outer handler
invalid_arguments_uncaught(w) ==
    /\ Resolving(w)
    /\ CurrentCall(w).function.name = "create_lead"
    /\ ~json_loads(CurrentCall(w).function.arguments).ok
    /\ internal_error(w)
    /\ UNCHANGED <<before, conversations, assistant_config, search, provider_log, sink_log,
                   events>>

\* lines 95, 115-126: the argument text does not parse
invalid_arguments(w) ==
    /\ Resolving(w)
    /\ CurrentCall(w).function.name = "create_lead"
    /\ ~json_loads(CurrentCall(w).function.arguments).ok
    /\ conversations' = StoreAppend(conversations, thread_id[w],
                           ToolMessage(json_dumps(error_output), CurrentCall(w).id))
    /\ NextCall(w)
    /\ UNCHANGED <<before, assistant_config, search, pc, thread_id, user_input, tool_calls,
                   resp, provider_log, sink_log, turn_log, events>>

\* lines 95-96: the argument text parses to something that has no .get
arguments_not_object(w) ==
    /\ Resolving(w)
    /\ CurrentCall(w).function.name = "create_lead"
    /\ json_loads(CurrentCall(w).function.arguments).ok
    /\ ~json_loads(CurrentCall(w).function.arguments).isdict
    /\ internal_error(w)
    /\ UNCHANGED <<before, conversations, assistant_config, search, provider_log, sink_log, events>>

\* lines 95-113: the Lead Sink is called
lead_call(w) ==
    /\ Resolving(w)
    /\ CurrentCall(w).function.name = "create_lead"
    /\ json_loads(CurrentCall(w).function.arguments).ok
    /\ json_loads(CurrentCall(w).function.arguments).isdict
    /\ \E outcome \in SinkOutcomes :
          LET arguments == json_loads(CurrentCall(w).function.arguments).value
              call == create_lead(dict_get(arguments, "name", EmptyStr),
                                  dict_get(arguments, "company_name", EmptyStr),
                                  dict_get(arguments, "phone", EmptyStr),
                                  dict_get(arguments, "email", EmptyStr),
                                  outcome)
          IN  /\ sink_log' = [sink_log EXCEPT ![w] =
                    Append(@, [tool_call_id |-> CurrentCall(w).id, fields |-> call.posted])]
              /\ CASE call.raised = NoException ->
                        /\ conversations' = StoreAppend(conversations, thread_id[w],
                                ToolMessage(json_dumps(call.value), CurrentCall(w).id))
                        /\ NextCall(w)
                        /\ UNCHANGED <<pc, thread_id, user_input, tool_calls, resp, turn_log>>
                   [] OTHER ->
                        /\ internal_error(w)
                        /\ UNCHANGED conversations
    /\ UNCHANGED <<before, assistant_config, search, provider_log, events>>

\* lines 130-140: the loop is over, the second provider call is made
final_completion_call(w) ==
    /\ pc[w] = "resolving_tools"
    /\ idx[w] > Len(tool_calls[w])
    /\ provider_log' = [provider_log EXCEPT ![w] =
            Append(@, FinalMessages(conversations[thread_id[w]], assistant_config))]
    /\ pc' = [pc EXCEPT ![w] = "final_completion"]
    /\ UNCHANGED <<before, conversations, assistant_config, search, locals, resp, sink_log, turn_log,
                   events>>

\* a failure path that takes back what the turn appended
final_completion_failed_rollback(w) ==
    /\ pc[w] = "final_completion"
    /\ Return(w, "/chat", thread_id[w], 500, [error |-> "Failed to get final response"])
    /\ EndTurn(w, "final_call_failed", None)
    /\ conversations' = [conversations EXCEPT ![thread_id[w]] = before[w]]
    /\ UNCHANGED <<before, assistant_config, search, provider_log, sink_log, events>>

\* lines 148-149: the second provider call failed
final_completion_failed(w) ==
    /\ pc[w] = "final_completion"
    /\ Return(w, "/chat", thread_id[w], 500, [error |-> "Failed to get final response"])
    /\ EndTurn(w, "final_call_failed", None)
    /\ UNCHANGED <<before, conversations, assistant_config, search, provider_log, sink_log, events>>

\* lines 142-147: the second reply's content is the answer
final_reply(w) ==
    /\ pc[w] = "final_completion"
    /\ \E reply \in SecondRoundReplies :
          /\ conversations' = StoreAppend(conversations, thread_id[w],
                                          AssistantMessage(reply.content))
          /\ Return(w, "/chat", thread_id[w], 200, [response |-> reply.content])
          /\ EndTurn(w, "tools", reply.content)
    /\ UNCHANGED <<before, assistant_config, search, provider_log, sink_log, events>>

\* ------------------------------------------------------------------ /history
get_history(w, tid) ==
    /\ Accept(w, <<>>)
    /\ NoProviderCall(w)
    /\ IF Falsy(tid) \/ ~Known(tid)
       THEN Return(w, "/history", tid, 400, [error |-> "Invalid thread_id"])
       ELSE Return(w, "/history", tid, 200, [history |-> HistoryEntries(conversations[tid])])
    /\ UNCHANGED <<conversations, assistant_config, search, turn_log, events>>

\* -------------------------------------------------------------------- /clear
\* a reset that empties the whole store (conversations.clear())
clear_conversation_all(w, tid) ==
    /\ Accept(w, <<>>)
    /\ NoProviderCall(w)
    /\ IF Falsy(tid)
       THEN /\ Return(w, "/clear", tid, 400, [error |-> "Missing thread_id"])
            /\ UNCHANGED <<conversations, turn_log>>
       ELSE IF Known(tid)
       THEN /\ conversations' = <<>>
            /\ turn_log' = <<>>
            /\ Return(w, "/clear", tid, 200, [message |-> "Conversation cleared"])
       ELSE /\ Return(w, "/clear", tid, 400, [error |-> "Invalid thread_id"])
            /\ UNCHANGED <<conversations, turn_log>>
    /\ UNCHANGED <<assistant_config, search, events>>

clear_conversation(w, tid) ==
    /\ Accept(w, <<>>)
    /\ NoProviderCall(w)
    /\ IF Falsy(tid)
       THEN /\ Return(w, "/clear", tid, 400, [error |-> "Missing thread_id"])
            /\ UNCHANGED <<conversations, turn_log>>
       ELSE IF Known(tid)
       THEN /\ conversations' = StoreSet(conversations, tid, <<>>)
            /\ turn_log' = StoreSet(turn_log, tid, <<>>)
            /\ Return(w, "/clear", tid, 200, [message |-> "Conversation cleared"])
       ELSE /\ Return(w, "/clear", tid, 400, [error |-> "Invalid thread_id"])
            /\ UNCHANGED <<conversations, turn_log>>
    /\ UNCHANGED <<assistant_config, search, events>>

\* ------------------------------------------------------------------ requests
\* thread ids a client may send: absent, empty, never handed out, handed out
ThreadIdInputs == {None, EmptyStr, UnknownId} \cup DOMAIN conversations

\* ------------------------------------------------------------ specification
\* requests are served one at a time: a request is taken only when no turn is
\* under way, and one handler serves them all
OneAtATime(w) == w = W1 /\ \A v \in Workers : pc[v] = "idle"

Next ==
    \/ \E w \in Workers : OneAtATime(w) /\ start_conversation(w)
    \/ \E w \in Workers, tid \in ThreadIdInputs : OneAtATime(w) /\ chat_rejected(w, tid)
    \/ \E w \in Workers, tid \in ThreadIdInputs, text \in UserTexts :
          OneAtATime(w) /\ chat_begin(w, tid, text)
    \/ \E w \in Workers : first_completion_failed(w)
    \/ \E w \in Workers : direct_reply(w)
    \/ \E w \in Workers : tool_calls_pending(w)
    \/ \E w \in Workers : other_tool(w)
    \/ \E w \in Workers : invalid_arguments(w)
    \/ \E w \in Workers : arguments_not_object(w)
    \/ \E w \in Workers : lead_call(w)
    \/ \E w \in Workers : final_completion_call(w)
    \/ \E w \in Workers : final_completion_failed(w)
    \/ \E w \in Workers : final_reply(w)
    \/ \E w \in Workers, tid \in ThreadIdInputs : OneAtATime(w) /\ get_history(w, tid)
    \/ \E w \in Workers, tid \in ThreadIdInputs : OneAtATime(w) /\ clear_conversation(w, tid)

Spec == Init /\ [][Next]_vars

\* requests are served by two handlers that overlap freely (a threaded server): a
\* handler gives way to the other wherever it waits for the provider or the sink.
\* The requests carry thread ids the service handed out.
ConcurrentNext ==
    \/ \E w \in Workers : start_conversation(w) /\ events' <= MaxOverlap
    \/ \E w \in Workers, tid \in DOMAIN conversations, text \in UserTexts :
          chat_begin(w, tid, text) /\ events' <= MaxOverlap
    \/ \E w \in Workers : first_completion_failed(w)
    \/ \E w \in Workers : direct_reply(w)
    \/ \E w \in Workers : tool_calls_pending(w) /\ events' <= MaxOverlap
    \/ \E w \in Workers : other_tool(w)
    \/ \E w \in Workers : invalid_arguments(w)
    \/ \E w \in Workers : arguments_not_object(w)
    \/ \E w \in Workers : lead_call(w)
    \/ \E w \in Workers : final_completion_call(w)
    \/ \E w \in Workers : final_completion_failed(w)
    \/ \E w \in Workers : final_reply(w)
    \/ \E w \in Workers, tid \in DOMAIN conversations : get_history(w, tid)
    \/ \E w \in Workers, tid \in DOMAIN conversations : clear_conversation(w, tid)

ConcurrentSpec == Init /\ [][ConcurrentNext]_vars

\* ---------------------------------------------------------- the retriever alone
\* search_knowledge_base is about to be called on a query and a knowledge text
SearchInit ==
    /\ conversations = <<>>
    /\ assistant_config = create_assistant(EmptyStr)
    /\ pc = [w \in Workers |-> "idle"]
    /\ thread_id = [w \in Workers |-> None]
    /\ user_input = [w \in Workers |-> EmptyStr]
    /\ tool_calls = [w \in Workers |-> <<>>]
    /\ idx = [w \in Workers |-> 0]
    /\ resp = [w \in Workers |-> NoResponse]
    /\ provider_log = [w \in Workers |-> <<>>]
    /\ sink_log = [w \in Workers |-> <<>>]
    /\ turn_log = <<>>
    /\ before = [w \in Workers |-> <<>>]
    /\ events = 0
    /\ \E query \in Queries, lines \in LineLists :
          search = [called |-> TRUE, query |-> query, lines |-> lines,
                    knowledge_content |-> JoinLines(lines),
                    returned |-> FALSE, result |-> None]

search_call ==
    /\ search.called
    /\ ~search.returned
    /\ search' = [search EXCEPT
                     !.returned = TRUE,
                     !.result = search_knowledge_base(search.query, search.knowledge_content)]
    /\ UNCHANGED <<conversations, assistant_config, pc, locals, resp, provider_log, sink_log,
                   turn_log, before, events>>

SearchNext == search_call

SearchSpec == SearchInit /\ [][SearchNext]_vars

\* ------------------------------------------------------------------ properties
Threads == DOMAIN conversations

IsTool(msg) == msg.role = "tool"

\* msg is an assistant message whose tool_calls list holds the id `tool` answers
Requests(msg, tool) ==
    /\ msg.role = "assistant"
    /\ "tool_calls" \in DOMAIN msg
    /\ \E k \in 1..Len(msg.tool_calls) : msg.tool_calls[k].id = tool.tool_call_id

\* the thread a handler works on, or worked on last
ThreadOf(w) == IF pc[w] = "idle" THEN resp[w].thread_id ELSE thread_id[w]

\* C1 as stated: every tool message sits immediately after the assistant message
\* whose tool_calls list holds its tool_call_id.
C1_ToolImmediatelyAfterRequest ==
    \A t \in Threads : \A i \in 1..Len(conversations[t]) :
        IsTool(conversations[t][i]) =>
            /\ i > 1
            /\ Requests(conversations[t][i-1], conversations[t][i])

\* C1 amended: every tool message comes after the assistant message whose tool_calls
\* list holds its tool_call_id, and only tool messages answering that same assistant
\* message stand between the two.
C1_ToolFollowsItsRequest ==
    \A t \in Threads : \A i \in 1..Len(conversations[t]) :
        IsTool(conversations[t][i]) =>
            \E j \in 1..(i-1) :
                /\ Requests(conversations[t][j], conversations[t][i])
                /\ \A k \in (j+1)..(i-1) :
                      /\ IsTool(conversations[t][k])
                      /\ Requests(conversations[t][j], conversations[t][k])

\* a thread holds two tool messages in a row, answering one assistant message
C1_TwoResultsInARow ==
    \E t \in Threads : \E i \in 3..Len(conversations[t]) :
        /\ IsTool(conversations[t][i])
        /\ IsTool(conversations[t][i-1])
        /\ Requests(conversations[t][i-2], conversations[t][i])

\* the positions of the tool messages of thread t bound to call id `id`
AnswersTo(t, id) ==
    {i \in 1..Len(conversations[t]) :
        IsTool(conversations[t][i]) /\ conversations[t][i].tool_call_id = id}

\* C2: when the second provider call is under way, every tool-call request of the
\* first reply has exactly one tool message answering it in the history, and a
\* request for a tool other than create_lead is answered with the payload
\* {"error": "Invalid function arguments"}.
C2_EveryRequestAnswered ==
    \A w \in Workers :
        pc[w] = "final_completion" =>
            \A k \in 1..Len(tool_calls[w]) :
                LET request == tool_calls[w][k]
                    answers == AnswersTo(thread_id[w], request.id)
                IN  /\ Cardinality(answers) = 1
                    /\ request.function.name # "create_lead" =>
                          \A i \in answers :
                              conversations[thread_id[w]][i].content
                                  = json_dumps(error_output)

\* C3: every call of the Lead Sink, however it ends, is followed by a tool message
\* bound to the call id it was made for: the turn goes on.
C3_SinkFailureKeepsTurn ==
    \A w \in Workers : \A k \in 1..Len(sink_log[w]) :
        AnswersTo(ThreadOf(w), sink_log[w][k].tool_call_id) # {}

Last(seq) == seq[Len(seq)]

\* handler w has returned the response to a request on route `route`
Answered(w, route) == pc[w] = "idle" /\ resp[w].route = route

\* handler w takes a request in this step and answers it on route `route`
Serves(w, route) ==
    /\ pc[w] = "idle"
    /\ pc'[w] = "idle"
    /\ resp'[w].route = route

\* handler w takes a /chat request in this step: it refuses it or begins a turn
ChatRequest(w) == Serves(w, "/chat") \/ (pc[w] = "idle" /\ pc'[w] = "first_completion")

\* the thread id of the request handler w takes in this step
Requested(w) == IF pc'[w] = "idle" THEN resp'[w].thread_id ELSE thread_id'[w]

\* C4: a /chat request whose thread id is absent, empty or no key of the store is
\* answered 400, calls neither the provider nor the Lead Sink and leaves the store
\* (its thread ids and every history) as it was.
C4_RefusedChatLeavesStore ==
    [][\A w \in Workers :
          (/\ ChatRequest(w)
           /\ Falsy(Requested(w)) \/ Requested(w) \notin DOMAIN conversations)
          => /\ resp'[w].route = "/chat"
             /\ resp'[w].status = 400
             /\ pc'[w] = "idle"
             /\ provider_log'[w] = <<>>
             /\ sink_log'[w] = <<>>
             /\ conversations' = conversations]_vars

\* a /chat request on an unknown thread id was refused while a thread had messages
C4_ChatRefused ==
    /\ Answered(W1, "/chat")
    /\ resp[W1].status = 400
    /\ resp[W1].thread_id = UnknownId
    /\ \E t \in Threads : conversations[t] # <<>>

\* the turn that thread t saw last ended with `outcome`, and w served it
TurnEnded(w, t, outcome) ==
    /\ Answered(w, "/chat")
    /\ resp[w].thread_id = t
    /\ t \in Threads
    /\ turn_log[t] # <<>>
    /\ Last(turn_log[t]).outcome = outcome

\* C5, the history kept: after a first-round failure the answer is 500 and the
\* thread holds what it held before the turn plus the turn's user message; after a
\* second-round failure the answer is 500 and the thread holds in addition the
\* assistant tool-call message and the tool results, and nothing else.
C5_KeptAfterFailure ==
    \A w \in Workers : \A t \in Threads :
        LET h == conversations[t]
            n == Len(before[w])
        IN  /\ TurnEnded(w, t, "first_call_failed") =>
                  /\ resp[w].status = 500
                  /\ h = before[w] \o <<UserMessage(Last(turn_log[t]).message)>>
            /\ TurnEnded(w, t, "final_call_failed") =>
                  /\ resp[w].status = 500
                  /\ Len(h) >= n + 2
                  /\ SubSeq(h, 1, n + 1)
                        = before[w] \o <<UserMessage(Last(turn_log[t]).message)>>
                  /\ h[n + 2].role = "assistant"
                  /\ "tool_calls" \in DOMAIN h[n + 2]
                  /\ \A i \in (n + 3)..Len(h) : IsTool(h[i]) /\ Requests(h[n + 2], h[i])

\* C5, the next turn: the first provider call of a turn carries, after the system
\* message, the history the thread held when the turn began.
C5_NextTurnSendsKept ==
    \A w \in Workers :
        pc[w] = "first_completion" =>
            SubSeq(provider_log[w][1], 2, Len(before[w]) + 1) = before[w]

\* a provider call of handler w fails in this step
ProviderFails(w) ==
    /\ pc[w] \in {"first_completion", "final_completion"}
    /\ turn_log' # turn_log
    /\ Last(turn_log'[thread_id[w]]).outcome \in {"first_call_failed", "final_call_failed"}

\* C5: a provider failure answers 500, appends nothing and keeps what the turn has
\* appended so far, and the next turn on the thread sends what was kept.
C5_ProviderFailureKeepsProgress ==
    /\ []C5_KeptAfterFailure
    /\ []C5_NextTurnSendsKept
    /\ [][\A w \in Workers : ProviderFails(w) =>
              /\ resp'[w].status = 500
              /\ conversations' = conversations]_vars

\* a turn begins on a thread whose last turn failed at the second provider call,
\* with the tool-call message and a tool result still in its history
C5_TurnAfterFailedFinalCall ==
    /\ pc[W1] = "first_completion"
    /\ turn_log[thread_id[W1]] # <<>>
    /\ Last(turn_log[thread_id[W1]]).outcome = "final_call_failed"
    /\ \E i \in 1..Len(before[W1]) : IsTool(before[W1][i])

\* C6: the first provider call of a turn carries the system message followed by the
\* stored history, which ends with the turn's user message: 1 + len(history)
\* messages, the last of them the only one for this turn's user text.
C6_FirstCallIsPromptPlusHistory ==
    \A w \in Workers :
        pc[w] = "first_completion" =>
            LET messages == provider_log[w][1]
                h == conversations[thread_id[w]]
            IN  /\ Len(messages) = 1 + Len(h)
                /\ messages[1] = SystemMessage(assistant_config.system_prompt)
                /\ \A i \in 1..(Len(h) - 1) : messages[i + 1] = h[i]
                /\ Last(messages).role = "user"
                /\ Last(h) = UserMessage(user_input[w])

\* C7: a 200 answer of /chat carries a text, never null, and it is the content of
\* the plain assistant message the turn appended last.
C7_AnswerIsLastAssistantText ==
    \A w \in Workers :
        (Answered(w, "/chat") /\ resp[w].status = 200) =>
            LET h == conversations[resp[w].thread_id]
            IN  /\ resp[w].body.response # None
                /\ h # <<>>
                /\ Last(h).role = "assistant"
                /\ "tool_calls" \notin DOMAIN Last(h)
                /\ Last(h).content = resp[w].body.response

\* the entries N turns without tool calls must show: user text, then reply, per turn
RECURSIVE TurnPairs(_)
TurnPairs(log) ==
    IF log = <<>> THEN <<>>
    ELSE <<[role |-> "user", content |-> Head(log).message],
           [role |-> "assistant", content |-> Head(log).reply]>>
         \o TurnPairs(Tail(log))

AllDirect(log) == \A i \in 1..Len(log) : log[i].outcome = "direct"

\* C8: once N turns have run on a thread (since it was created or cleared), all of
\* them answered by the provider without tool calls, /history returns 2N entries:
\* per turn the user message with the submitted text, then the assistant message
\* with the reply, in the order of submission.
C8_HistoryIsTurnPairs ==
    \A w \in Workers :
        (/\ Answered(w, "/history")
         /\ resp[w].status = 200
         /\ AllDirect(turn_log[resp[w].thread_id]))
        => /\ resp[w].body.history = TurnPairs(turn_log[resp[w].thread_id])
           /\ Len(resp[w].body.history) = 2 * Len(turn_log[resp[w].thread_id])

\* /history answered after two turns without tool calls that carried different texts
C8_HistoryAfterTwoTurns ==
    /\ Answered(W1, "/history")
    /\ resp[W1].status = 200
    /\ AllDirect(turn_log[resp[W1].thread_id])
    /\ Len(turn_log[resp[W1].thread_id]) = 2
    /\ turn_log[resp[W1].thread_id][1].message # turn_log[resp[W1].thread_id][2].message

\* the positions of the messages of h that /history is to show
Shown(h) ==
    {i \in 1..Len(h) : h[i].role \in {"user", "assistant"} /\ ~("tool_calls" \in DOMAIN h[i])}

\* the k-th smallest element of a set of positions
Nth(positions, k) ==
    CHOOSE i \in positions : Cardinality({j \in positions : j <= i}) = k

\* C9, the answer: /history on a valid thread returns role and content of the user
\* messages and of the assistant messages without tool calls, in stored order.
C9_HistoryIsShownSubsequence ==
    \A w \in Workers :
        (Answered(w, "/history") /\ resp[w].status = 200) =>
            LET h == conversations[resp[w].thread_id]
                entries == resp[w].body.history
            IN  /\ Len(entries) = Cardinality(Shown(h))
                /\ \A k \in 1..Len(entries) :
                      entries[k] = [role |-> h[Nth(Shown(h), k)].role,
                                    content |-> h[Nth(Shown(h), k)].content]

\* C9: /history returns the shown subsequence and leaves the store as it was.
C9_HistoryFiltersAndKeepsStore ==
    /\ []C9_HistoryIsShownSubsequence
    /\ [][\A w \in Workers :
              Serves(w, "/history") => conversations' = conversations]_vars

\* /history answered on a thread that holds one turn with one create_lead call the
\* Lead Sink accepted: two entries returned, four messages stored
C9_HistoryAfterLeadTurn ==
    /\ Answered(W1, "/history")
    /\ resp[W1].status = 200
    /\ LET h == conversations[resp[W1].thread_id]
       IN  /\ Len(h) = 4
           /\ h[1].role = "user"
           /\ "tool_calls" \in DOMAIN h[2]
           /\ Len(h[2].tool_calls) = 1
           /\ h[2].tool_calls[1].function.name = "create_lead"
           /\ IsTool(h[3])
           /\ h[3].content # json_dumps(error_output)
           /\ h[4].role = "assistant"
           /\ resp[W1].body.history
                 = <<[role |-> "user", content |-> h[1].content],
                     [role |-> "assistant", content |-> h[4].content]>>

\* C10: /clear on a known thread id answers 200, keeps the id in the store with an
\* empty history and keeps the other threads and their histories; /clear on an
\* absent, empty or unknown id answers 400 and changes nothing.
C10_ClearEmptiesOneThread ==
    [][\A w \in Workers :
          Serves(w, "/clear") =>
              IF ~Falsy(Requested(w)) /\ Requested(w) \in DOMAIN conversations
              THEN /\ resp'[w].status = 200
                   /\ DOMAIN conversations' = DOMAIN conversations
                   /\ conversations'[Requested(w)] = <<>>
                   /\ \A t \in DOMAIN conversations \ {Requested(w)} :
                         conversations'[t] = conversations[t]
              ELSE /\ resp'[w].status = 400
                   /\ conversations' = conversations]_vars

\* /clear answered 200 on one thread while another thread holds messages
C10_ClearedBesideAnother ==
    /\ Answered(W1, "/clear")
    /\ resp[W1].status = 200
    /\ conversations[resp[W1].thread_id] = <<>>
    /\ \E t \in Threads : conversations[t] # <<>>

\* ------------------------------------------------------------ overlapping requests
\* what handler w holds: its frame, its last response and what is logged for it
Holds(w) ==
    <<pc[w], thread_id[w], user_input[w], tool_calls[w], idx[w], resp[w],
      provider_log[w], sink_log[w], before[w]>>

\* the handlers whose frame, response or log differs after this step
Actors == {w \in Workers : Holds(w)' # Holds(w)}

\* the thread id of the request handler w works on in this step
Target(w) ==
    IF pc[w] # "idle" THEN thread_id[w]
    ELSE IF pc'[w] # "idle" THEN thread_id'[w]
    ELSE resp'[w].thread_id

\* C11, /start: a /start answers with an id that was no key of the store, binds it
\* to an empty history and leaves every other thread as it was.
C11_StartIsFresh ==
    \A w \in Workers :
        (w \in Actors /\ pc[w] = "idle" /\ pc'[w] = "idle" /\ resp'[w].route = "/start")
        => LET tid == resp'[w].body.thread_id
           IN  /\ tid \notin DOMAIN conversations
               /\ DOMAIN conversations' = DOMAIN conversations \cup {tid}
               /\ conversations'[tid] = <<>>
               /\ \A t \in DOMAIN conversations : conversations'[t] = conversations[t]

\* C11, the frame: a step changes the history of a thread only when it is a step of
\* a request addressed to that thread (the one handler that moved works on it, or
\* no handler moved and a /clear of that thread is repeated).
C11_OnlyTheAddressedThread ==
    /\ DOMAIN conversations \subseteq DOMAIN conversations'
    /\ \A t \in DOMAIN conversations :
          conversations'[t] # conversations[t] =>
              IF Actors # {}
              THEN \A w \in Actors : Target(w) = t
              ELSE \E w \in Workers :
                      /\ pc[w] = "idle"
                      /\ resp[w].route = "/clear"
                      /\ resp[w].thread_id = t

ErrorPayload == <<"{\"error\": \"", "Invalid function arguments", "\"}">>

\* request k of the turn of handler w is a create_lead request with unparseable text
Unparseable(w, k) ==
    /\ tool_calls[w][k].function.name = "create_lead"
    /\ tool_calls[w][k].function.arguments = ArgsBroken

\* C12, the loop: the step that resolves an unparseable create_lead request appends
\* the error tool message bound to its call id, calls no Lead Sink and moves on to
\* the next request.
C12_ErrorResultAndOn ==
    \A w \in Workers :
        (/\ Resolving(w)
         /\ Unparseable(w, idx[w])
         /\ <<pc[w], idx[w]>>' # <<pc[w], idx[w]>>)
        => /\ conversations' =
                 [conversations EXCEPT ![thread_id[w]] =
                     Append(@, [role |-> "tool", content |-> ErrorPayload,
                                tool_call_id |-> tool_calls[w][idx[w]].id])]
           /\ sink_log'[w] = sink_log[w]
           /\ pc'[w] = "resolving_tools"
           /\ idx'[w] = idx[w] + 1

\* C12, the results: every unparseable request the loop has passed is answered by
\* exactly one tool message, with the error payload, and was never posted.
C12_ErrorResultKept ==
    \A w \in Workers :
        pc[w] \in {"resolving_tools", "final_completion"} =>
            \A k \in 1..Len(tool_calls[w]) :
                (k < idx[w] /\ Unparseable(w, k)) =>
                    /\ Cardinality(AnswersTo(thread_id[w], tool_calls[w][k].id)) = 1
                    /\ \A i \in AnswersTo(thread_id[w], tool_calls[w][k].id) :
                          conversations[thread_id[w]][i].content = ErrorPayload
                    /\ \A j \in 1..Len(sink_log[w]) :
                          sink_log[w][j].tool_call_id # tool_calls[w][k].id

\* C12, the end: in a turn with an unparseable request, the second provider call
\* either fails (500, nothing appended) or is answered 200 with one assistant
\* message, the reply, appended to the history.
C12_TurnCompletes ==
    \A w \in Workers :
        (/\ pc[w] = "final_completion"
         /\ pc'[w] # "final_completion"
         /\ \E k \in 1..Len(tool_calls[w]) : Unparseable(w, k))
        => \/ /\ resp'[w].status = 500
              /\ resp'[w].body = [error |-> "Failed to get final response"]
              /\ conversations' = conversations
           \/ /\ resp'[w].status = 200
              /\ conversations' =
                    [conversations EXCEPT ![thread_id[w]] =
                        Append(@, [role |-> "assistant",
                                   content |-> resp'[w].body.response])]

\* C12: an unparseable create_lead request becomes an error tool message, no Lead
\* Sink call is made for it, the loop goes on, and the turn ends 200 with a final
\* assistant message once the second provider call succeeds.
C12_UnparseableArgumentsAnswered ==
    /\ []C12_ErrorResultKept
    /\ [][C12_ErrorResultAndOn /\ C12_TurnCompletes]_vars

\* a turn answered 200 whose first request was unparseable and whose second request
\* reached the Lead Sink: both results and the final reply are in the history
C12_AnsweredAfterBrokenCall ==
    /\ Answered(W1, "/chat")
    /\ resp[W1].status = 200
    /\ LET h == conversations[resp[W1].thread_id]
           n == Len(h)
       IN  /\ n >= 5
           /\ "tool_calls" \in DOMAIN h[n-3]
           /\ Len(h[n-3].tool_calls) = 2
           /\ h[n-3].tool_calls[1].function.arguments = ArgsBroken
           /\ h[n-2] = [role |-> "tool", content |-> ErrorPayload,
                        tool_call_id |-> h[n-3].tool_calls[1].id]
           /\ IsTool(h[n-1])
           /\ h[n-1].tool_call_id = h[n-3].tool_calls[2].id
           /\ Len(sink_log[W1]) = 1
           /\ h[n].role = "assistant"
           /\ h[n].content \in ReplyTexts

\* ------------------------------------------------------------ knowledge augmentation
\* the text of the outbound user message of the first provider call of handler w
SentText(w) == Last(provider_log[w][1]).content

\* C13, the store: while a turn is under way its user message is stored with the
\* text the client sent, and every stored user message carries a client text.
C13_StoredTextIsOriginal ==
    /\ \A w \in Workers :
          pc[w] # "idle" =>
              conversations[thread_id[w]][Len(before[w]) + 1]
                  = [role |-> "user", content |-> user_input[w]]
    /\ \A t \in Threads : \A i \in 1..Len(conversations[t]) :
          conversations[t][i].role = "user" => conversations[t][i].content \in UserTexts

\* C13, the second call: its message list carries the turn's user message with the
\* text the client sent, and no user message with any other text.
C13_SecondCallIsUnaugmented ==
    \A w \in Workers :
        pc[w] = "final_completion" =>
            LET messages == provider_log[w][2]
            IN  /\ messages[Len(before[w]) + 2] = [role |-> "user", content |-> user_input[w]]
                /\ \A i \in 1..Len(messages) :
                      messages[i].role = "user" => messages[i].content \in UserTexts

\* C13: augmentation changes the outbound copy of the user message only; the stored
\* message and the second provider call keep the original text.
C13_AugmentationIsOutboundOnly ==
    C13_StoredTextIsOriginal /\ C13_SecondCallIsUnaugmented

\* the second provider call of a turn whose first call carried a snippet the
\* retriever found for the user text
C13_SecondCallAfterSnippet ==
    /\ pc[W1] = "final_completion"
    /\ ~Falsy(assistant_config.knowledge_base)
    /\ search_knowledge_base(user_input[W1], assistant_config.knowledge_base) # EmptyStr
    /\ SentText(W1) # user_input[W1]
    /\ Len(SentText(W1)) > Len(user_input[W1])

\* ---------------------------------------------------------------- the retriever
\* the whitespace-separated terms of a query: its maximal runs without whitespace
Terms(q) ==
    {SubSeq(q, p[1], p[2]) :
        p \in {r \in (1..Len(q)) \X (1..Len(q)) :
                 /\ r[1] <= r[2]
                 /\ \A k \in r[1]..r[2] : q[k] \notin {" ", "\n", "\t"}
                 /\ r[1] = 1 \/ q[r[1] - 1] \in {" ", "\n", "\t"}
                 /\ r[2] = Len(q) \/ q[r[2] + 1] \in {" ", "\n", "\t"}}}

\* two characters that are the same letter
SameLetter(a, b) ==
    \/ a = b
    \/ {a, b} \in {{"A", "a"}, {"B", "b"}, {"C", "c"}, {"D", "d"}, {"Z", "z"}}

\* the line contains a term of the query as a substring, whatever the case
Matches(line, q) ==
    \E term \in Terms(q) : \E off \in 0..(Len(line) - Len(term)) :
        \A k \in 1..Len(term) : SameLetter(line[off + k], term[k])

\* the lines, each followed by a newline except the last
RECURSIVE NewlineJoined(_)
NewlineJoined(parts) ==
    IF Len(parts) = 0 THEN <<>>
    ELSE IF Len(parts) = 1 THEN parts[1]
    ELSE NewlineJoined(SubSeq(parts, 1, Len(parts) - 1)) \o <<"\n">> \o parts[Len(parts)]

\* the positions of the lines of the knowledge text that match the query
Matching == {i \in 1..Len(search.lines) : Matches(search.lines[i], search.query)}

Rank(state) ==
    CASE state = "idle" -> 0
      [] state = "first_completion" -> 1
      [] state = "resolving_tools" -> 2
      [] state = "final_completion" -> 3

\* C15, progress: every step of a turn under way ends the turn, moves it to a later
\* state, or moves the tool loop to its next request.
C15_TurnOnlyAdvances ==
    \A w \in Workers :
        (pc[w] # "idle" /\ Holds(w)' # Holds(w)) =>
            \/ pc'[w] = "idle"
            \/ Rank(pc'[w]) > Rank(pc[w])
            \/ /\ pc[w] = "resolving_tools"
               /\ pc'[w] = "resolving_tools"
               /\ idx'[w] = idx[w] + 1
               /\ tool_calls'[w] = tool_calls[w]

\* C15, the calls as they are made: a provider call is the first of a new turn or
\* the second of a turn in the tool loop; a Lead Sink call is made in the tool loop,
\* after the first provider call and before the second, one per step; the step that
\* follows the second provider call ends the turn and calls nothing.
C15_CallsInTheirPlace ==
    \A w \in Workers :
        /\ provider_log'[w] # provider_log[w] =>
              \/ pc[w] = "idle" /\ Len(provider_log'[w]) <= 1
              \/ /\ pc[w] = "resolving_tools"
                 /\ Len(provider_log[w]) = 1
                 /\ Len(provider_log'[w]) = 2
                 /\ provider_log'[w][1] = provider_log[w][1]
        /\ (sink_log'[w] # sink_log[w] /\ sink_log'[w] # <<>>) =>
              /\ Resolving(w)
              /\ Len(provider_log[w]) = 1
              /\ provider_log'[w] = provider_log[w]
              /\ tool_calls[w][idx[w]].function.name = "create_lead"
              /\ sink_log'[w] = Append(sink_log[w],
                                       [tool_call_id |-> tool_calls[w][idx[w]].id,
                                        fields |-> Last(sink_log'[w]).fields])
        /\ (pc[w] = "final_completion" /\ Holds(w)' # Holds(w)) =>
              /\ pc'[w] = "idle"
              /\ sink_log'[w] = sink_log[w]
              /\ provider_log'[w] = provider_log[w]

\* C15, the counts: a request never makes more than two provider calls, a turn that
\* ended without tool calls or with the first call failing made exactly one, and no
\* call id was posted to the Lead Sink twice.
C15_CallCounts ==
    \A w \in Workers :
        /\ Len(provider_log[w]) <= 2
        /\ \A t \in Threads :
              (TurnEnded(w, t, "direct") \/ TurnEnded(w, t, "first_call_failed"))
                  => Len(provider_log[w]) = 1 /\ sink_log[w] = <<>>
        /\ \A j, k \in 1..Len(sink_log[w]) :
              sink_log[w][j].tool_call_id = sink_log[w][k].tool_call_id => j = k

\* C15: a turn never goes back and retries nothing: at most two provider calls, one
\* Lead Sink call at most per create_lead request of the first reply, made between
\* the two provider calls, and nothing executed for the second reply.
C15_NothingRetried ==
    /\ []C15_CallCounts
    /\ [][C15_TurnOnlyAdvances /\ C15_CallsInTheirPlace]_vars

\* a turn has ended 200 on a second reply that asked for a tool again (its content
\* was null): two provider calls and the one Lead Sink call of the first reply
C15_SecondReplyAskedForTools ==
    /\ Answered(W1, "/chat")
    /\ resp[W1].status = 200
    /\ resp[W1].body.response = None
    /\ Len(provider_log[W1]) = 2
    /\ Len(sink_log[W1]) = 1

\* ------------------------------------------------------------- order of appends
\* the position of call id `id` among the requests of the turn of handler w
RequestNo(w, id) == CHOOSE k \in 1..Len(tool_calls[w]) : tool_calls[w][k].id = id

\* C16, the history of a turn in or past its tool loop: what the thread held before,
\* the user message, the assistant message with all requests of the reply in the
\* provider's order, then tool results only, in the order of their requests.
C16_AppendsInOrder ==
    \A w \in Workers :
        pc[w] \in {"resolving_tools", "final_completion"} =>
            LET h == conversations[thread_id[w]]
                n == Len(before[w])
            IN  /\ Len(h) >= n + 2
                /\ SubSeq(h, 1, n) = before[w]
                /\ h[n + 1] = [role |-> "user", content |-> user_input[w]]
                /\ h[n + 2].role = "assistant"
                /\ h[n + 2].tool_calls = tool_calls[w]
                /\ \A i \in (n + 3)..Len(h) :
                      /\ IsTool(h[i])
                      /\ \E k \in 1..Len(tool_calls[w]) : tool_calls[w][k].id = h[i].tool_call_id
                      /\ RequestNo(w, h[i].tool_call_id) < idx[w]
                /\ \A i, j \in (n + 3)..Len(h) :
                      i < j => RequestNo(w, h[i].tool_call_id) < RequestNo(w, h[j].tool_call_id)

\* C16, the second call: it is not made while a request is unresolved, and when it
\* is made its message list is the system prompt followed by the stored history.
C16_SecondCallAfterLoop ==
    \A w \in Workers :
        /\ pc[w] = "resolving_tools" => Len(provider_log[w]) = 1
        /\ pc[w] = "final_completion" =>
              /\ idx[w] = Len(tool_calls[w]) + 1
              /\ Len(provider_log[w]) = 2
              /\ provider_log[w][2] =
                    <<[role |-> "system", content |-> assistant_config.system_prompt]>>
                    \o conversations[thread_id[w]]

\* C16: user message, assistant message with the requests, tool results in request
\* order, and only then the second provider call, on the system prompt and the
\* whole stored history.
C16_ToolTurnOrder ==
    C16_AppendsInOrder /\ C16_SecondCallAfterLoop

\* the second provider call of a turn after two requests that both got a result,
\* the first an error result and the second a record of the Lead Sink
C16_SecondCallAfterTwoResults ==
    /\ pc[W1] = "final_completion"
    /\ Len(tool_calls[W1]) = 2
    /\ LET h == conversations[thread_id[W1]]
       IN  /\ Len(h) = Len(before[W1]) + 4
           /\ h[Len(h) - 1].tool_call_id = tool_calls[W1][1].id
           /\ h[Len(h) - 1].content = ErrorPayload
           /\ h[Len(h)].tool_call_id = tool_calls[W1][2].id
           /\ Len(sink_log[W1]) = 1

\* --------------------------------------------------------- parseable arguments
\* handler w resolves, in this step, a create_lead request whose text parses
ResolvesParseable(w) ==
    /\ Resolving(w)
    /\ tool_calls[w][idx[w]].function.name = "create_lead"
    /\ tool_calls[w][idx[w]].function.arguments \in {ArgsFull, ArgsPartial, ArgsList}
    /\ Holds(w)' # Holds(w)

\* the field of a parsed value, the empty string when the value has no such field
FieldOr(parsed, key) ==
    IF parsed.isdict /\ key \in DOMAIN parsed.value THEN parsed.value[key] ELSE <<>>

\* the record the Lead Sink is to receive for the current request of handler w
ExpectedFields(w) ==
    LET parsed == json_loads(tool_calls[w][idx[w]].function.arguments)
    IN  [Name |-> FieldOr(parsed, "name"), Phone |-> FieldOr(parsed, "phone"),
         Email |-> FieldOr(parsed, "email"), CompanyName |-> FieldOr(parsed, "company_name")]

\* C17, the call: the Lead Sink is invoked once for the request, with each absent
\* field set to the empty string.
C17_SinkCalledOnce ==
    \A w \in Workers :
        ResolvesParseable(w) =>
            sink_log'[w] = Append(sink_log[w], [tool_call_id |-> tool_calls[w][idx[w]].id,
                                                fields |-> ExpectedFields(w)])

\* C17, the result: a tool message bound to the call id is appended.
C17_ResultAppended ==
    \A w \in Workers :
        ResolvesParseable(w) =>
            /\ Len(conversations'[thread_id[w]]) = Len(conversations[thread_id[w]]) + 1
            /\ Last(conversations'[thread_id[w]]).role = "tool"
            /\ Last(conversations'[thread_id[w]]).tool_call_id = tool_calls[w][idx[w]].id

\* C17: every create_lead request whose argument text parses, whatever the parsed
\* value is, reaches the Lead Sink exactly once, absent fields as empty strings,
\* and gets a tool message bound to its call id.
C17_ParseableRequestReachesSink ==
    [][C17_SinkCalledOnce /\ C17_ResultAppended]_vars

\* ------------------------------------------------------ overlapping turns, one thread
\* C18: /chat turns on one thread are not mutually excluded: while a turn of one
\* handler is under way on a thread, whatever its stage, a free handler can begin
\* another turn on that same thread.
C18_ChatNeverExcluded ==
    \A w \in Workers : \A v \in Workers \ {w} :
        (pc[w] = "idle" /\ pc[v] # "idle" /\ events < MaxEvents) =>
            \E text \in UserTexts : ENABLED chat_begin(w, thread_id[v], text)

\* two turns overlap on one thread and their appends interleave: the reply of the
\* turn that ended sits behind the user message of the turn still under way, cut
\* off from the user message of its own turn
C18_ReplyCutOffFromItsUserMessage ==
    \E t \in Threads :
        /\ Answered("w1", "/chat")
        /\ resp["w1"].status = 200
        /\ resp["w1"].thread_id = t
        /\ pc["w2"] = "first_completion"
        /\ thread_id["w2"] = t
        /\ Last(turn_log[t]).message # user_input["w2"]
        /\ conversations[t] =
              <<[role |-> "user", content |-> Last(turn_log[t]).message],
                [role |-> "user", content |-> user_input["w2"]],
                [role |-> "assistant", content |-> resp["w1"].body.response]>>

\* ------------------------------------------------------------ /clear during a turn
\* C19: in every reachable state, with handlers overlapping, the stored history of
\* a thread is empty or begins with a user message.
C19_HistoryBeginsWithUser ==
    \A t \in Threads :
        conversations[t] = <<>> \/ conversations[t][1].role = "user"

=============================================================================
